---- MODULE Spec2Model ----
(***************************************************************************)
(* State-machine model of src/components/Main.jsx (Meme Factory D^2): the  *)
(* script loader hook, the App component's state and event handlers, the   *)
(* Draggable synchronising effect and the export / upload callbacks.       *)
(***************************************************************************)
EXTENDS Integers, Sequences, FiniteSets, TLC

\* ------------------------------------------------------------- bounds
\* Number of state-changing user events (clicks, edits, drags) explored.
MaxOps == 4

\* ---------------------------------------------------------- constants
\* JavaScript null, as held by activeFieldId (ids are positive integers).
null == 0

\* SCRIPT_URLS, each URL abbreviated to the library it delivers.
SCRIPT_URLS == <<"html2canvas", "gsap", "Draggable">>

INITIAL_IMAGE_URL == [scheme |-> "https", ref |-> "i.imgflip.com/1bij.jpg"]

\* data.data.memes of the gallery response, reduced to the url of each entry.
GalleryUrls == <<INITIAL_IMAGE_URL, [scheme |-> "https", ref |-> "i.imgflip.com/other.jpg"]>>

\* Files the user can pick in the upload input.
Files == {[type |-> "image/png", content |-> "png-bytes"]}

\* FileReader.readAsDataURL: the result's scheme, media type and payload.
DataUrl(file) == [scheme |-> "data", mime |-> file.type, payload |-> file.content]

\* reader.result of a read that ended in an error: null.
NullResult == [scheme |-> "none"]

SeedFields ==
    << [id |-> 1, text |-> "One does not simply", font |-> "Anton",
        color |-> "#ffffff", size |-> 40, x |-> 100, y |-> 50],
       [id |-> 2, text |-> "Fix a bug on Friday", font |-> "Anton",
        color |-> "#ffffff", size |-> 40, x |-> 100, y |-> 300] >>

\* The keys ContextualToolbar passes to onChange, with the values explored.
ToolbarValues ==
    [text |-> {"edited"}, font |-> {"Bangers"}, size |-> {10}, color |-> {"#ff0000"}]

ToolbarKeys == DOMAIN ToolbarValues

\* The values Date.now() returns: milliseconds since the epoch, all above the
\* seed ids; two successive calls may see the same millisecond.
ClockValues == {3, 4}

\* Final offsets (this.x, this.y) a drag can end at.
DragOffsets == {<<10, 20>>}

VARIABLES
    phase,                  \* "initial" | "mounted" | "unmounted" | "crashed"
    scriptEls,              \* <script> elements of the document, in order
    loaderRuns,             \* per loader-effect run: the promise of each URL
    librariesLoaded,        \* useScriptLoader's `loaded`
    fetches,                \* gallery fetches in flight
    allMemes,
    meme,                   \* meme.imageUrl
    fields,
    activeFieldId,
    elems,                  \* DOM element rendered for each entry of fields
    clock,                  \* last value Date.now() returned
    draggableInstancesRef,  \* draggableInstancesRef.current
    orphans,                \* Draggables dropped from the ref while alive
    effectDeps,             \* dependency values the drag effect last ran with
    hasCleanup,             \* the drag effect's last run returned its cleanup
    timers,                 \* pending 150 ms settle timers
    captures,               \* html2canvas promises in flight
    readers,                \* files being read by a FileReader
    nAdds, nRemoves, nExports, nDownloads,   \* history counters
    nOps                    \* user events handled so far

loaderVars == <<scriptEls, loaderRuns, librariesLoaded>>
galleryVars == <<fetches, allMemes>>
fieldVars == <<fields, activeFieldId, elems, clock>>
dragVars == <<draggableInstancesRef, orphans, effectDeps, hasCleanup>>
exportVars == <<timers, captures>>
histVars == <<nAdds, nRemoves, nExports, nDownloads>>
vars == <<phase, loaderVars, galleryVars, meme, fieldVars, dragVars, exportVars,
          readers, histVars, nOps>>

\* ------------------------------------------------------- script loader
Range(s) == {s[i] : i \in DOMAIN s}

\* Mutant: the lookup never finds an element.
ScriptPresentNever(doc, src) == FALSE

\* document.querySelector(`script[src="${src}"]`) finds an element.
ScriptPresent(doc, src) == \E i \in DOMAIN doc : doc[i].src = src

\* window.<library> is defined once a script element of its URL has executed.
WindowHas(src) == \E i \in DOMAIN scriptEls :
                      scriptEls[i].src = src /\ scriptEls[i].state = "loaded"

\* loadScript(src) of loader run r: resolve at once when an element with that
\* src exists, else append a new element and leave the promise pending.
loadScript(doc, src, r) ==
    IF ScriptPresent(doc, src)
    THEN [doc |-> doc, promise |-> "resolved"]
    ELSE [doc |-> Append(doc, [src |-> src, state |-> "loading", by |-> r]),
          promise |-> "pending"]

\* scripts.map(loadScript) of run r from the i-th URL on.
RECURSIVE LoadScripts(_, _, _, _)
LoadScripts(doc, promises, r, i) ==
    IF i > Len(SCRIPT_URLS) THEN [doc |-> doc, promises |-> promises]
    ELSE LET one == loadScript(doc, SCRIPT_URLS[i], r)
         IN  LoadScripts(one.doc, (SCRIPT_URLS[i] :> one.promise) @@ promises, r, i + 1)

\* n invocations of the loader effect, one after the other.
RECURSIVE RunLoaderEffect(_, _, _)
RunLoaderEffect(doc, runs, n) ==
    IF n = 0 THEN [doc |-> doc, runs |-> runs]
    ELSE LET one == LoadScripts(doc, <<>>, Len(runs) + 1, 1)
         IN  RunLoaderEffect(one.doc, Append(runs, one.promises), n - 1)

\* Promise.all(...) of a run is fulfilled: every promise of the run resolved.
AllResolved(promises) == \A src \in DOMAIN promises : promises[src] = "resolved"

\* The state of the promise of each run waiting on element el after it settles.
Settle(runs, el, outcome) ==
    [r \in DOMAIN runs |->
        IF r = el.by /\ runs[r][el.src] = "pending"
        THEN [runs[r] EXCEPT ![el.src] = outcome]
        ELSE runs[r]]

\* ---------------------------------------------------------- field store
\* fields.find(f => f.id === activeFieldId): the first match, if any.
ActiveIndices == {i \in DOMAIN fields : fields[i].id = activeFieldId}

HasActiveField == ActiveIndices # {}

activeField == fields[CHOOSE i \in ActiveIndices : \A j \in ActiveIndices : i <= j]

\* The object literal of handleAddField with id Date.now() = now.
NewField(now) ==
    [id |-> now, text |-> "New Text", font |-> "Anton", color |-> "#ffffff",
     size |-> 40, x |-> 150, y |-> 150]

\* Mutant: the new field is put first.
AddedFieldsPrepended(fs, now) == <<NewField(now)>> \o fs

\* [...fields, newField]
AddedFields(fs, now) == Append(fs, NewField(now))

\* Mutant: the comparison inverted, every other field is rewritten.
ChangedFieldsInverted(fs, id, key, value) ==
    [i \in DOMAIN fs |-> IF fs[i].id # id THEN (key :> value) @@ fs[i] ELSE fs[i]]

\* Mutant: the id test dropped, every field is rewritten.
ChangedFieldsEvery(fs, id, key, value) ==
    [i \in DOMAIN fs |-> (key :> value) @@ fs[i]]

\* fields.map(field => field.id === id ? { ...field, [key]: value } : field)
ChangedFields(fs, id, key, value) ==
    [i \in DOMAIN fs |-> IF fs[i].id = id THEN (key :> value) @@ fs[i] ELSE fs[i]]

\* The indices fields.filter(field => field.id !== id) keeps, in order.
RECURSIVE KeptIndices(_, _, _)
KeptIndices(fs, id, i) ==
    IF i > Len(fs) THEN <<>>
    ELSE (IF fs[i].id # id THEN <<i>> ELSE <<>>) \o KeptIndices(fs, id, i + 1)

FilteredFields(fs, id) ==
    LET kept == KeptIndices(fs, id, 1) IN [k \in DOMAIN kept |-> fs[kept[k]]]

\* Mutant: the moved field is rebuilt from the attributes it was created with.
DraggedFieldsFromDefaults(fs, id, x, y) ==
    [i \in DOMAIN fs |->
        IF fs[i].id = id THEN [NewField(id) EXCEPT !.x = x, !.y = y] ELSE fs[i]]

\* currentFields.map(item => item.id === id ? { ...item, x, y } : item)
DraggedFields(fs, id, x, y) ==
    [i \in DOMAIN fs |-> IF fs[i].id = id THEN [fs[i] EXCEPT !.x = x, !.y = y] ELSE fs[i]]

\* The elements React keeps for the kept entries (each entry keeps the element
\* rendered for it), and the element created for an appended entry.
KeptElems(fs, id) ==
    LET kept == KeptIndices(fs, id, 1) IN [k \in DOMAIN kept |-> elems[kept[k]]]

NewElem == Len(SeedFields) + nAdds + 1

\* ------------------------------------------------------ drag behaviours
\* A Draggable instance: the field id its callbacks closed over, the element
\* it is bound to, and whether kill() was called on it.
Draggable(fieldId, target) == [fieldId |-> fieldId, target |-> target, killed |-> FALSE]

\* Mutant: kill() is never called.
KillNone(insts) == insts

\* insts.forEach(d => d.kill())
KillAll(insts) == [i \in DOMAIN insts |-> [insts[i] EXCEPT !.killed = TRUE]]

Alive(insts) == SelectSeq(insts, LAMBDA d : ~d.killed)

\* fields.forEach((field, index) => push(Draggable.create(`.draggable-${index}`)[0])):
\* the element of class draggable-<index> is the one rendered for fields[index].
CreateDraggables(fs, els) == [i \in DOMAIN fs |-> Draggable(fs[i].id, els[i])]

\* Mutant: the whole field list is a dependency, not its length.
EffectDepsOfList(fs, imageUrl, loaded) == <<fs, imageUrl, loaded>>

\* The dependency array [fields.length, meme.imageUrl, librariesLoaded] of a
\* render with these values.
EffectDepsOf(fs, imageUrl, loaded) == <<Len(fs), imageUrl, loaded>>

EffectDeps == EffectDepsOf(fields, meme, librariesLoaded)

\* A render was committed whose dependencies differ from the last effect run.
EffectPending == phase = "mounted" /\ effectDeps # EffectDeps

\* The main UI is rendered (not the loading screen) and React has flushed the
\* effects of the last commit: the state in which a user event is dispatched.
Interactive == phase = "mounted" /\ librariesLoaded /\ ~EffectPending

\* memeRef.current is the composition's element.
MemeRefSet == phase = "mounted" /\ librariesLoaded

\* Every live Draggable, referenced or not.
LiveDraggables == Alive(draggableInstancesRef) \o orphans

\* ---------------------------------------------------------------- Init
InitApp ==
    /\ phase = "initial"
    /\ loaderRuns = <<>>
    /\ librariesLoaded = FALSE
    /\ fetches = 0
    /\ allMemes = <<>>
    /\ meme = INITIAL_IMAGE_URL
    /\ fields = SeedFields
    /\ activeFieldId = null
    /\ elems = [i \in DOMAIN SeedFields |-> i]
    /\ clock = 3
    /\ draggableInstancesRef = <<>>
    /\ orphans = <<>>
    /\ effectDeps = EffectDepsOf(SeedFields, INITIAL_IMAGE_URL, FALSE)
    /\ hasCleanup = FALSE
    /\ timers = 0
    /\ captures = 0
    /\ readers = <<>>
    /\ nAdds = 0 /\ nRemoves = 0
    /\ nExports = 0 /\ nDownloads = 0
    /\ nOps = 0

\* A freshly loaded page: no script element of SCRIPT_URLS in the document.
Init == InitApp /\ scriptEls = <<>>

\* ------------------------------------------------- mount, loader events
\* What the handlers below leave alone, by subsystem.
appIdle == <<galleryVars, meme, fieldVars, dragVars, exportVars, readers, histVars, nOps>>

\* First render and its effects, each effect invoked n times: the loader
\* effect runs, the gallery fetch starts, the drag effect returns early.
MountWith(n) ==
    /\ phase = "initial"
    /\ phase' = "mounted"
    /\ LET res == RunLoaderEffect(scriptEls, <<>>, n)
       IN  /\ scriptEls' = res.doc
           /\ loaderRuns' = res.runs
           /\ librariesLoaded' = \E r \in DOMAIN res.runs : AllResolved(res.runs[r])
    /\ fetches' = n
    /\ effectDeps' = EffectDepsOf(fields, meme, FALSE)
    /\ hasCleanup' = FALSE
    /\ UNCHANGED <<allMemes, meme, fieldVars, draggableInstancesRef, orphans,
                   exportVars, readers, histVars, nOps>>

\* A production build: every effect runs once.
Mount == MountWith(1)

\* A development build under React.StrictMode: every effect runs twice.
MountStrict == MountWith(2)

\* script.onload of element i: resolve(); Promise.all(...).then(setLoaded(true)).
ScriptLoad ==
    \E i \in DOMAIN scriptEls :
        /\ scriptEls[i].state = "loading"
        /\ scriptEls' = [scriptEls EXCEPT ![i].state = "loaded"]
        /\ loaderRuns' = Settle(loaderRuns, scriptEls[i], "resolved")
        /\ librariesLoaded' =
              (librariesLoaded \/
                 (phase = "mounted" /\ \E r \in DOMAIN loaderRuns :
                      AllResolved(loaderRuns'[r]) /\ ~AllResolved(loaderRuns[r])))
        /\ UNCHANGED <<phase, appIdle>>

\* script.onerror of element i: reject(); .catch logs the error.
ScriptError ==
    \E i \in DOMAIN scriptEls :
        /\ scriptEls[i].state = "loading"
        /\ scriptEls' = [scriptEls EXCEPT ![i].state = "failed"]
        /\ loaderRuns' = Settle(loaderRuns, scriptEls[i], "rejected")
        /\ UNCHANGED <<phase, librariesLoaded, appIdle>>

\* fetch(...).then(setAllMemes): the gallery arrives.
FetchDone ==
    /\ fetches > 0
    /\ fetches' = fetches - 1
    /\ allMemes' = IF phase = "mounted" THEN GalleryUrls ELSE allMemes
    /\ UNCHANGED <<phase, loaderVars, meme, fieldVars, dragVars, exportVars,
                   readers, histVars, nOps>>

\* fetch(...).catch: the failure is logged.
FetchFail ==
    /\ fetches > 0
    /\ fetches' = fetches - 1
    /\ UNCHANGED <<phase, loaderVars, allMemes, meme, fieldVars, dragVars,
                   exportVars, readers, histVars, nOps>>

\* -------------------------------------------------------- drag effect
\* The drag useEffect for the committed render: the previous run's cleanup,
\* then the body. Without gsap or Draggable on window line 95 throws and React
\* unmounts the tree.
DragEffect ==
    /\ EffectPending
    /\ effectDeps' = EffectDeps
    /\ LET cleaned == IF hasCleanup THEN KillAll(draggableInstancesRef)
                      ELSE draggableInstancesRef
       IN  IF ~librariesLoaded
           THEN /\ draggableInstancesRef' = cleaned
                /\ hasCleanup' = FALSE
                /\ UNCHANGED <<phase, orphans>>
           ELSE IF ~(WindowHas("gsap") /\ WindowHas("Draggable"))
           THEN /\ phase' = "crashed"
                /\ draggableInstancesRef' = cleaned
                /\ hasCleanup' = FALSE
                /\ UNCHANGED orphans
           ELSE /\ draggableInstancesRef' = CreateDraggables(fields, elems)
                /\ orphans' = orphans \o Alive(KillAll(cleaned))
                /\ hasCleanup' = TRUE
                /\ UNCHANGED phase
    /\ UNCHANGED <<loaderVars, galleryVars, meme, fieldVars, exportVars, readers,
                   histVars, nOps>>

\* Mutant: the effect returns no cleanup, unmounting kills nothing.
UnmountWithoutCleanup ==
    /\ phase = "mounted"
    /\ ~EffectPending
    /\ phase' = "unmounted"
    /\ hasCleanup' = FALSE
    /\ UNCHANGED <<loaderVars, galleryVars, meme, fieldVars, draggableInstancesRef,
                   orphans, effectDeps, exportVars, readers, histVars, nOps>>

\* The component unmounts: the drag effect's cleanup kills the instances.
Unmount ==
    /\ phase = "mounted"
    /\ ~EffectPending
    /\ phase' = "unmounted"
    /\ draggableInstancesRef' = IF hasCleanup THEN KillAll(draggableInstancesRef)
                                ELSE draggableInstancesRef
    /\ hasCleanup' = FALSE
    /\ UNCHANGED <<loaderVars, galleryVars, meme, fieldVars, orphans, effectDeps,
                   exportVars, readers, histVars, nOps>>

\* ------------------------------------------------------ event handlers
\* What a handler of the mounted component never touches.
handlerIdle == <<phase, loaderVars, galleryVars, dragVars>>

\* Mutant: a new background starts from the seed fields again.
handleSelectMemeResetsFields(url) ==
    /\ meme' = url
    /\ activeFieldId' = null
    /\ fields' = SeedFields
    /\ elems' = [i \in DOMAIN SeedFields |-> i]
    /\ UNCHANGED <<handlerIdle, clock, exportVars, readers, histVars>>

\* handleSelectMeme(url)
handleSelectMeme(url) ==
    /\ meme' = url
    /\ activeFieldId' = null
    /\ UNCHANGED <<handlerIdle, fields, elems, clock, exportVars, readers, histVars>>

\* handleAddField() with Date.now() returning now.
handleAddField(now) ==
    /\ clock' = now
    /\ fields' = AddedFields(fields, now)
    /\ elems' = Append(elems, NewElem)
    /\ activeFieldId' = NewField(now).id
    /\ nAdds' = nAdds + 1
    /\ UNCHANGED <<handlerIdle, meme, exportVars, readers, nRemoves, nExports, nDownloads>>

\* handleFieldChange(id, key, value)
handleFieldChange(id, key, value) ==
    /\ fields' = ChangedFields(fields, id, key, value)
    /\ UNCHANGED <<handlerIdle, meme, activeFieldId, elems, clock, exportVars, readers,
                   histVars>>

\* Mutant: the active id is kept when its field is deleted.
handleDeleteFieldKeepsActive(id) ==
    /\ fields' = FilteredFields(fields, id)
    /\ elems' = KeptElems(fields, id)
    /\ nRemoves' = nRemoves + (IF \E i \in DOMAIN fields : fields[i].id = id THEN 1 ELSE 0)
    /\ UNCHANGED <<handlerIdle, meme, activeFieldId, clock, exportVars, readers, nAdds,
                   nExports, nDownloads>>

\* Mutant: the active id is cleared whichever field is deleted.
handleDeleteFieldClearsAlways(id) ==
    /\ fields' = FilteredFields(fields, id)
    /\ elems' = KeptElems(fields, id)
    /\ activeFieldId' = null
    /\ nRemoves' = nRemoves + (IF \E i \in DOMAIN fields : fields[i].id = id THEN 1 ELSE 0)
    /\ UNCHANGED <<handlerIdle, meme, clock, exportVars, readers, nAdds, nExports,
                   nDownloads>>

\* handleDeleteField(id); nRemoves counts the calls whose id was live.
handleDeleteField(id) ==
    /\ fields' = FilteredFields(fields, id)
    /\ elems' = KeptElems(fields, id)
    /\ activeFieldId' = IF activeFieldId = id THEN null ELSE activeFieldId
    /\ nRemoves' = nRemoves + (IF \E i \in DOMAIN fields : fields[i].id = id THEN 1 ELSE 0)
    /\ UNCHANGED <<handlerIdle, meme, clock, exportVars, readers, nAdds, nExports,
                   nDownloads>>

\* A user event is dispatched and counted.
UserEvent == Interactive /\ nOps < MaxOps /\ nOps' = nOps + 1

\* TemplatePanel: a click on a gallery image.
SelectMeme ==
    /\ UserEvent
    /\ \E i \in DOMAIN allMemes : handleSelectMeme(allMemes[i])

\* handleRandomMeme(): nothing with an empty gallery, else any gallery entry.
RandomMeme ==
    IF Len(allMemes) = 0
    THEN Interactive /\ UNCHANGED vars
    ELSE UserEvent /\ \E i \in DOMAIN allMemes : handleSelectMeme(allMemes[i])

\* TextPanel: "Add New Text". Date.now() never runs backwards.
AddField ==
    /\ UserEvent
    /\ \E now \in {t \in ClockValues : t >= clock} : handleAddField(now)

\* ContextualToolbar (rendered for activeField): an input's onChange.
FieldChange ==
    /\ UserEvent
    /\ HasActiveField
    /\ \E key \in ToolbarKeys : \E value \in ToolbarValues[key] :
          handleFieldChange(activeField.id, key, value)

\* ContextualToolbar: the delete button.
DeleteField ==
    /\ UserEvent
    /\ HasActiveField
    /\ handleDeleteField(activeField.id)

\* handleImageUpload(e): files is empty, or holds the picked file.
ImageUpload ==
    \E picked \in {<<>>} \cup {<<f>> : f \in Files} :
        IF Len(picked) = 0
        THEN Interactive /\ UNCHANGED vars
        ELSE /\ UserEvent
             /\ readers' = Append(readers, picked[1])
             /\ activeFieldId' = null
             /\ UNCHANGED <<handlerIdle, meme, fields, elems, clock, exportVars, histVars>>

\* reader.onloadend: setMeme({ imageUrl: reader.result }); the result is the
\* data URL, or null when the read failed. An unmounted component ignores it.
ReaderLoadEnd ==
    /\ ~EffectPending
    /\ \E i \in DOMAIN readers : \E result \in {DataUrl(readers[i]), NullResult} :
          /\ readers' = SubSeq(readers, 1, i - 1) \o SubSeq(readers, i + 1, Len(readers))
          /\ meme' = IF phase = "mounted" THEN result ELSE meme
    /\ UNCHANGED <<handlerIdle, fieldVars, exportVars, histVars, nOps>>

\* handleDownloadMeme(): without html2canvas log and return, else clear the
\* selection and start the settle timer.
DownloadMeme ==
    IF ~WindowHas("html2canvas")
    THEN Interactive /\ UNCHANGED vars
    ELSE /\ UserEvent
         /\ activeFieldId' = null
         /\ timers' = timers + 1
         /\ nExports' = nExports + 1
         /\ UNCHANGED <<handlerIdle, meme, fields, elems, clock, captures, readers,
                        nAdds, nRemoves, nDownloads>>

\* The settle timer fires: return without memeRef.current, else call html2canvas.
SettleTimer ==
    /\ timers > 0
    /\ timers' = timers - 1
    /\ captures' = IF MemeRefSet THEN captures + 1 ELSE captures
    /\ UNCHANGED <<handlerIdle, meme, fieldVars, readers, histVars, nOps>>

\* Mutant: the download starts and the promise stays to resolve again.
CaptureDoneAgain ==
    /\ captures > 0
    /\ nDownloads < MaxOps
    /\ nDownloads' = nDownloads + 1
    /\ UNCHANGED <<handlerIdle, meme, fieldVars, timers, captures, readers, nAdds,
                   nRemoves, nExports, nOps>>

\* html2canvas resolves: the link is clicked, the download starts.
CaptureDone ==
    /\ captures > 0
    /\ captures' = captures - 1
    /\ nDownloads' = nDownloads + 1
    /\ UNCHANGED <<handlerIdle, meme, fieldVars, timers, readers, nAdds, nRemoves,
                   nExports, nOps>>

\* html2canvas rejects: the error is logged.
CaptureFail ==
    /\ captures > 0
    /\ captures' = captures - 1
    /\ UNCHANGED <<handlerIdle, meme, fieldVars, timers, readers, histVars, nOps>>

\* handleCanvasClick(e) for a click whose target is the image, the composition
\* element, or the surrounding section.
CanvasClick ==
    \E target \in {"imageRef", "memeRef", "section"} :
        IF target \in {"imageRef", "memeRef"}
        THEN /\ UserEvent
             /\ activeFieldId' = null
             /\ UNCHANGED <<handlerIdle, meme, fields, elems, clock, exportVars, readers,
                            histVars>>
        ELSE Interactive /\ UNCHANGED vars

\* A live Draggable whose target element is in the document.
Grabbable == {d \in Range(LiveDraggables) : d.target \in Range(elems)}

\* onClick of Draggable d: setActiveFieldId(field.id) of the captured field.
onClick(d) ==
    /\ activeFieldId' = d.fieldId
    /\ UNCHANGED <<handlerIdle, meme, fields, elems, clock, exportVars, readers, histVars>>

\* onDragEnd of Draggable d with final offset (x, y): the functional update.
onDragEnd(d, x, y) ==
    /\ fields' = DraggedFields(fields, d.fieldId, x, y)
    /\ UNCHANGED <<handlerIdle, meme, activeFieldId, elems, clock, exportVars, readers,
                   histVars>>

\* The user clicks a text element without moving it.
DraggableClick ==
    /\ UserEvent
    /\ \E d \in Grabbable : onClick(d)

\* The user drags a text element and releases it.
DraggableDragEnd ==
    /\ UserEvent
    /\ \E d \in Grabbable : \E off \in DragOffsets : onDragEnd(d, off[1], off[2])

\* ------------------------------------------- direct field-store calls
\* The field store's operations called with any argument: an id no field has,
\* an id other than the active one, a key that is no attribute of a field.
AnyIds == {1, 2, 9} \cup ClockValues

UnknownKey == "rotation"

AnyValues == [k \in ToolbarKeys \cup {UnknownKey} |->
                 IF k = UnknownKey THEN {45} ELSE ToolbarValues[k]]

UpdateField ==
    /\ UserEvent
    /\ \E id \in AnyIds : \E key \in DOMAIN AnyValues : \E value \in AnyValues[key] :
          handleFieldChange(id, key, value)

RemoveField ==
    /\ UserEvent
    /\ \E id \in AnyIds : handleDeleteField(id)

\* ------------------------------------------------------ specifications
Next ==
    \/ Mount \/ ScriptLoad \/ ScriptError \/ FetchDone \/ FetchFail
    \/ DragEffect \/ Unmount
    \/ SelectMeme \/ RandomMeme \/ AddField \/ FieldChange \/ DeleteField
    \/ ImageUpload \/ ReaderLoadEnd
    \/ DownloadMeme \/ SettleTimer \/ CaptureDone \/ CaptureFail
    \/ CanvasClick \/ DraggableClick \/ DraggableDragEnd

\* A production run from a freshly loaded page, driven through the UI.
Spec == Init /\ [][Next]_vars

\* The field store by itself: its operations (add, update, remove, set
\* active) called in any order with any argument, with the template choice
\* and the drag effect that follow the store, and no export, upload or unmount.
NextStore ==
    \/ Mount \/ ScriptLoad \/ ScriptError \/ FetchDone \/ FetchFail
    \/ DragEffect
    \/ SelectMeme \/ AddField \/ UpdateField \/ RemoveField
    \/ CanvasClick \/ DraggableClick \/ DraggableDragEnd

SpecStore == Init /\ [][NextStore]_vars

\* The loader in any document: each script element of SCRIPT_URLS may already
\* be there, put by another source, loading, loaded or failed; the component
\* mounts in a production or a StrictMode build.
PreexistingDoc(st) ==
    LET present == SelectSeq(SCRIPT_URLS, LAMBDA u : st[u] # "absent")
    IN  [i \in DOMAIN present |-> [src |-> present[i], state |-> st[present[i]], by |-> 0]]

InitLoader ==
    /\ InitApp
    /\ \E st \in [Range(SCRIPT_URLS) -> {"absent", "loading", "loaded", "failed"}] :
          scriptEls = PreexistingDoc(st)

NextLoader ==
    \/ Mount \/ MountStrict \/ ScriptLoad \/ ScriptError
    \/ DragEffect \/ Unmount

SpecLoader == InitLoader /\ [][NextLoader]_vars

\* ------------------------------------------------------------- claims
\* C1: no two live fields have the same id, whatever the clock values at
\* which handleAddField runs (the clock never runs backwards).
C1_UniqueIds ==
    \A i, j \in DOMAIN fields : i # j => fields[i].id # fields[j].id

\* C2: the number of live fields is 2 plus the number of addField calls minus
\* the number of removeField calls whose id was live.
C2_SizeIsNetAdds == Len(fields) = Len(SeedFields) + nAdds - nRemoves

\* C3: the readiness flag is true only when every one of the three resources
\* has finished loading successfully, also for script elements that were in
\* the document before the loader ran.
C3_ReadyOnlyWhenAllLoaded ==
    librariesLoaded => \A src \in Range(SCRIPT_URLS) : WindowHas(src)

\* C4: when the settle timer fires and html2canvas is called, activeFieldId
\* is none, whatever the user did since the export request.
C4_CaptureSeesNoSelection ==
    [][captures' > captures => activeFieldId = null]_vars

\* C5: in every state in which meme.imageUrl has just changed value,
\* activeFieldId is none.
C5_BackgroundChangeClearsActive ==
    [][meme' # meme => activeFieldId' = null]_vars

\* C6: a drag release on the Draggable bound to the element of field F leaves
\* the record of every other entry of the field store as it was.
C6_DragMovesOnlyItsField ==
    [][\A d \in Grabbable : \A off \in DragOffsets :
          onDragEnd(d, off[1], off[2]) =>
              \A j \in DOMAIN fields : elems[j] # d.target => fields'[j] = fields[j]]_vars

\* C7 as stated: handleFieldChange with a key that is no attribute of a field
\* leaves the field store unchanged, for a live or an absent id.
C7_UnknownKeyIsNoOp ==
    [][\A id \in AnyIds : \A value \in AnyValues[UnknownKey] :
          handleFieldChange(id, UnknownKey, value) => fields' = fields]_vars

\* C7 as amended: handleFieldChange with a key that is no attribute of a field
\* leaves the store unchanged when no live field has the id; otherwise each
\* field with that id gains the key with the value, and the number and order
\* of the fields and every attribute they had are unchanged.
C7_UnknownKeyKeepsAttributes ==
    [][\A id \in AnyIds : \A value \in AnyValues[UnknownKey] :
          handleFieldChange(id, UnknownKey, value) =>
              /\ Len(fields') = Len(fields)
              /\ \A i \in DOMAIN fields :
                    /\ \A k \in DOMAIN fields[i] \ {UnknownKey} :
                          k \in DOMAIN fields'[i] /\ fields'[i][k] = fields[i][k]
                    /\ fields[i].id # id => fields'[i] = fields[i]
                    /\ fields[i].id = id =>
                          /\ DOMAIN fields'[i] = DOMAIN fields[i] \cup {UnknownKey}
                          /\ fields'[i][UnknownKey] = value
              /\ (\A i \in DOMAIN fields : fields[i].id # id) => fields' = fields]_vars

\* C7 witness: a live field has been given the unknown key.
C7_UnknownKeyStored ==
    \E i \in DOMAIN fields : UnknownKey \in DOMAIN fields[i]

C9_DeleteActiveClears ==
    [][\A id \in AnyIds :
          (activeFieldId = id /\ handleDeleteField(id)) => activeFieldId' = null]_vars

\* C9 witness: the toolbar's delete button (always the active field's) was
\* used and no field is active.
C9_ActiveDeleted == nRemoves >= 1 /\ activeFieldId = null /\ Len(fields) < Len(SeedFields) + nAdds

\* C10: handleFieldChange with one of the toolbar's attributes replaces that
\* attribute of the field(s) with the id and nothing else: the other
\* attributes, the other fields, the order and activeFieldId are unchanged,
\* and with no live field of that id the whole state is.
C10_UpdateReplacesOneAttribute ==
    [][\A id \in AnyIds : \A key \in ToolbarKeys : \A value \in ToolbarValues[key] :
          handleFieldChange(id, key, value) =>
              /\ Len(fields') = Len(fields)
              /\ \A i \in DOMAIN fields :
                    fields'[i] = IF fields[i].id = id
                                 THEN [fields[i] EXCEPT ![key] = value]
                                 ELSE fields[i]
              /\ activeFieldId' = activeFieldId
              /\ (\A i \in DOMAIN fields : fields[i].id # id) =>
                    UNCHANGED <<phase, loaderVars, galleryVars, meme, fieldVars, dragVars,
                                exportVars, readers, histVars>>]_vars

\* C10 witness: a toolbar attribute of one field of several holds its edited
\* value while the other fields do not.
C10_AttributeEdited ==
    \E i \in DOMAIN fields : \E key \in ToolbarKeys :
        /\ fields[i][key] \in ToolbarValues[key]
        /\ \E j \in DOMAIN fields : fields[j][key] \notin ToolbarValues[key]

\* C11: handleAddField appends exactly one field, with the default attributes
\* and the clock value as id, after the existing fields, leaves the existing
\* fields and their order as they were, and sets activeFieldId to the new
\* field's id.
C11_AddAppendsDefaultField ==
    [][\A now \in ClockValues :
          handleAddField(now) =>
              /\ Len(fields') = Len(fields) + 1
              /\ SubSeq(fields', 1, Len(fields)) = fields
              /\ LET new == fields'[Len(fields')]
                 IN  /\ new.text = "New Text" /\ new.font = "Anton"
                     /\ new.color = "#ffffff" /\ new.size = 40
                     /\ new.x = 150 /\ new.y = 150
                     /\ DOMAIN new = {"id", "text", "font", "color", "size", "x", "y"}
                     /\ activeFieldId' = new.id]_vars

\* C11 witness: a field was added after an existing field had been edited or
\* moved; the added field is last, has the defaults and is the active one.
C11_AddedAfterEdit ==
    /\ nAdds >= 1
    /\ Len(fields) = Len(SeedFields) + 1
    /\ fields[Len(fields)].text = "New Text"
    /\ fields[Len(fields)].x = 150
    /\ activeFieldId = fields[Len(fields)].id
    /\ \E i \in 1..Len(SeedFields) : fields[i] # SeedFields[i]

\* C12: once the load of one of the resources has failed, the readiness flag
\* is false in every later state, no script element is inserted any more, and
\* the application stays on the loading screen: the main UI is not rendered,
\* the fields are not touched and no Draggable is attached.
C12_FailureKeepsLoading ==
    [][(\E i \in DOMAIN scriptEls : scriptEls[i].state = "failed") =>
          /\ ~librariesLoaded'
          /\ Len(scriptEls') = Len(scriptEls)
          /\ ~Interactive'
          /\ fields' = fields
          /\ draggableInstancesRef' = draggableInstancesRef]_vars

\* C13: after any number of loader runs, in a document that may already hold
\* script elements of the URLs, each URL has at most one script element: the
\* loader inserts none for a URL that is present, and at most one otherwise.
C13_OneElementPerUrl ==
    \A src \in Range(SCRIPT_URLS) :
        Cardinality({i \in DOMAIN scriptEls : scriptEls[i].src = src}) <= 1

\* C13 witness: the loader effect has run twice in a document that held one of
\* the elements already, and the first run inserted the others.
C13_TwoRunsOverPresentElement ==
    /\ Len(loaderRuns) = 2
    /\ \E i \in DOMAIN scriptEls : scriptEls[i].by = 0
    /\ \E i \in DOMAIN scriptEls : scriptEls[i].by = 1
    /\ Len(scriptEls) = Len(SCRIPT_URLS)

\* C14: handleDeleteField(id) with id other than activeFieldId leaves
\* activeFieldId as it was and removes the field with that id only, the other
\* records and their order kept. From the two seed fields, one add and the
\* removal of both seed fields (three operations) leave exactly the added
\* field, still active; handleSelectMeme then leaves no active field.
C14_DeleteOtherKeepsActive ==
    [][/\ \A id \in AnyIds :
             (activeFieldId # id /\ handleDeleteField(id)) =>
                 /\ activeFieldId' = activeFieldId
                 /\ fields' = SelectSeq(fields, LAMBDA f : f.id # id)
       /\ (/\ nOps' = 3 /\ nAdds' = 1 /\ nRemoves' = 2
           /\ \A i \in DOMAIN fields' : fields'[i].id \notin {1, 2}) =>
              /\ Len(fields') = 1
              /\ fields'[1] = NewField(clock')
              /\ activeFieldId' = fields'[1].id
       /\ \A i \in DOMAIN allMemes :
             handleSelectMeme(allMemes[i]) => activeFieldId' = null]_vars

\* C14 witness: after one add and the removal of the two seed fields, a
\* template was selected: one field, the added one, and none active.
C14_SeedsRemovedThenTemplate ==
    /\ nOps = 4 /\ nAdds = 1 /\ nRemoves = 2
    /\ Len(fields) = 1 /\ fields[1] = NewField(clock)
    /\ activeFieldId = null
    /\ meme # INITIAL_IMAGE_URL

\* C15: in every reachable state meme.imageUrl is a remote URL or a data
\* URI, whatever the outcome of the file read of an upload.
C15_BackgroundIsUrlOrDataUri == meme.scheme \in {"https", "data"}

\* C16: a download starts only in the step in which a capture in flight
\* completes, one download for it, and downloads, captures in flight and
\* pending timers together never exceed the export requests; a capture that
\* fails, and a timer that fires with no composition element, start no
\* download and leave fields and meme.imageUrl as they were.
C16_DownloadOnlyAfterCapture ==
    [][/\ nDownloads' # nDownloads =>
             captures > 0 /\ captures' = captures - 1 /\ nDownloads' = nDownloads + 1
       /\ nDownloads' + captures' + timers' <= nExports'
       /\ (captures' < captures \/ timers' < timers) =>
             fields' = fields /\ meme' = meme
       /\ (timers' < timers /\ ~MemeRefSet) =>
             captures' = captures /\ nDownloads' = nDownloads]_vars

\* C16 witness: two exports were requested and have ended, one with a
\* download and one without.
C16_OneCaptureFailed ==
    /\ nExports = 2 /\ nDownloads = 1
    /\ timers = 0 /\ captures = 0

\* C17: whenever the drag effect has run for the current field list, the i-th
\* Draggable of the ref is bound to the element rendered for fields[i] and its
\* callbacks carry the id of fields[i]; a click on that element makes
\* fields[i], and no other field, the active one, and a drag release on it
\* writes to fields[i] and to no other field.
C17_BehaviourFollowsField ==
    [][Interactive =>
          IF Len(draggableInstancesRef) # Len(fields) THEN FALSE
          ELSE \A i \in DOMAIN fields :
                 LET d == draggableInstancesRef[i]
                 IN  /\ d.target = elems[i]
                     /\ d.fieldId = fields[i].id
                     /\ onClick(d) =>
                           {j \in DOMAIN fields' : fields'[j].id = activeFieldId'} = {i}
                     /\ \A off \in DragOffsets :
                           onDragEnd(d, off[1], off[2]) =>
                               /\ fields'[i].x = off[1] /\ fields'[i].y = off[2]
                               /\ \A j \in DOMAIN fields \ {i} : fields'[j] = fields[j]]_vars

\* C18: a drag release on a field writes the final offset to that field's x
\* and y and keeps its id, text, font, color and size as they are in the store
\* at the release, whatever was edited since the Draggable was attached.
C18_DragKeepsEdits ==
    [][\A d \in Grabbable : \A off \in DragOffsets :
          onDragEnd(d, off[1], off[2]) =>
              \A j \in DOMAIN fields :
                  fields[j].id = d.fieldId =>
                      fields'[j] = [fields[j] EXCEPT !.x = off[1], !.y = off[2]]]_vars

\* C18 witness: a field edited in the toolbar since the Draggables were
\* attached at load (no add, no remove, no background change) was dragged:
\* it holds the edited text and the final offset.
C18_EditedThenDragged ==
    /\ nAdds = 0 /\ nRemoves = 0 /\ meme = INITIAL_IMAGE_URL
    /\ \E j \in DOMAIN fields :
          /\ fields[j].text \in ToolbarValues.text
          /\ \E off \in DragOffsets : fields[j].x = off[1] /\ fields[j].y = off[2]

C20_RebuildOnCountOrBackground ==
    [][(phase = "mounted" /\ phase' = "mounted" /\ librariesLoaded /\ effectDeps[3]) =>
          LET rerun == effectDeps' # effectDeps
              stale == Len(draggableInstancesRef) # Len(fields) \/ effectDeps[2] # meme
          IN  /\ rerun => /\ stale
                          /\ draggableInstancesRef' = CreateDraggables(fields, elems)
                          /\ orphans' = <<>>
              /\ ~rerun => draggableInstancesRef' = draggableInstancesRef
              /\ (~stale /\ (Len(fields') # Len(fields) \/ meme' # meme)) => EffectPending'
              /\ (~stale /\ Len(fields') = Len(fields) /\ meme' = meme) => ~EffectPending'
              /\ (stale /\ ~rerun) =>
                    fields' = fields /\ meme' = meme /\ activeFieldId' = activeFieldId]_vars

\* C20 witness: after a rebuild for an added field, the field was edited and
\* dragged and an export was requested, and the ref still holds the set made
\* for the added field with no run of the effect pending.
C20_SetKeptAcrossEdits ==
    /\ Interactive
    /\ nAdds = 1 /\ nExports = 1
    /\ Len(draggableInstancesRef) = Len(SeedFields) + 1
    /\ \E j \in DOMAIN fields :
          /\ fields[j].text \in ToolbarValues.text
          /\ \E off \in DragOffsets : fields[j].x = off[1]

\* C21: in every reachable state activeFieldId is none or the id of a field
\* of the store: no add, remove, field click, canvas click, background
\* change, drag release or export leaves the id of a removed field active.
C21_ActiveIsLiveOrNone ==
    activeFieldId = null \/ \E i \in DOMAIN fields : fields[i].id = activeFieldId

\* C21 witness: a field was removed, which cleared the selection, and then a
\* remaining field was clicked and is the active one.
C21_ActiveAfterRemoval ==
    /\ nRemoves >= 1
    /\ Len(fields) < Len(SeedFields) + nAdds
    /\ activeFieldId # null
    /\ \E i \in DOMAIN fields : fields[i].id = activeFieldId

\* C22: a template selection, a random template, an upload and the end of
\* its file read, a click on the canvas background, and an export with its
\* timer and capture leave the field collection as it was (ids, order and
\* attributes); with an empty gallery the random template cannot change the
\* background, the active field or the fields.
C22_BackgroundAndExportKeepFields ==
    [][/\ (\/ SelectMeme \/ RandomMeme \/ ImageUpload \/ ReaderLoadEnd \/ CanvasClick
           \/ DownloadMeme \/ SettleTimer \/ CaptureDone \/ CaptureFail) =>
              fields' = fields
       /\ (Interactive /\ Len(allMemes) = 0) =>
              ~ENABLED (/\ RandomMeme
                        /\ (meme' # meme \/ activeFieldId' # activeFieldId
                               \/ fields' # fields))]_vars

\* C22 witness: after a field was added, an image was uploaded and read and
\* an export ran to its download; the seed fields and the added field are in
\* the store as they were, the added one last.
C22_FieldsKeptThroughUploadAndExport ==
    /\ nAdds = 1 /\ nRemoves = 0
    /\ meme.scheme = "data"
    /\ nExports = 1 /\ nDownloads = 1
    /\ Len(fields) = Len(SeedFields) + 1
    /\ SubSeq(fields, 1, Len(SeedFields)) = SeedFields
    /\ fields[Len(fields)] = NewField(clock)

====
